---- MODULE Spec2Model ----
(***************************************************************************)
(* Model of the iTAG Homey app: the device session of src/app.js (class    *)
(* iTAGDevice: connect attempt, disconnect observer, reconnect timer, ring *)
(* listeners, teardown) and the pairing lister of                          *)
(* src/drivers/itag/driver.js (onPairListDevices).                         *)
(*                                                                         *)
(* Every await of the code is a suspension point: a handler is a sequence  *)
(* of steps, one per await, and the steps of different handlers            *)
(* interleave.  Timers are kept in arming order: two timers armed with the *)
(* same delay fire in the order they were armed.                           *)
(***************************************************************************)
EXTENDS Integers, Sequences, FiniteSets, TLC

\* ----------------------------------------------------------------- bounds
MaxLinks == 2            \* link objects the transport hands out at one time
MaxAttempts == 2         \* connectToDevice runs that may be in flight at once
MaxReconnectTimers == 2  \* reconnect timers that may be pending at once
MaxRingTimers == 2       \* ring-stop timers that may be pending at once
MaxAds == 2              \* advertisements in one discovery result

\* ------------------------------------------------------ program constants
NoLink == 0              \* this.peripheral: null or undefined
NoTimer == 0             \* a timeout field that is null or undefined
RingByte == 2            \* Buffer.from([0x02])
StopByte == 0            \* Buffer.from([0x00])
NoByte == -1             \* nothing written to the alert characteristic yet
MinNotifyVersion == 6    \* the first Homey version with BLE notifications
TagName == "iTAG            "

LinkIds == 1..MaxLinks
Slots == 1..MaxAttempts
HomeyVersions == {MinNotifyVersion - 1, MinNotifyVersion}

VARIABLES
  initialized,            \* onInit has run
  deleted,                \* "no", "disconnecting" (onDeleted awaits disconnect), "done"
  alarm_disconnected,     \* capability value: "null", "true", "false"
  ring,                   \* capability value: "null", "true", "false"
  alarmRejected,          \* the latest write of alarm_disconnected was rejected
  wasDisconnected,        \* this.wasDisconnected
  peripheral,             \* this.peripheral: a link or NoLink
  ringListenerRegistered, \* this.ringListenerRegistered
  flowActionsRegistered,  \* this.flowActionsRegistered
  ringListeners,          \* registerCapabilityListener('ring', ..) calls made
  startListeners,         \* start_ringing registerRunListener calls made
  stopListeners,          \* stop_ringing registerRunListener calls made
  reconnectTimeout,       \* this.reconnectTimeout: a timer handle or NoTimer
  reconnectTimers,        \* pending timers armed by reconnect(), in arming order
  ringTimeout,            \* this._ringTimeout: a timer handle or NoTimer
  ringTimers,             \* pending ring-stop timers, in arming order
  attempts,               \* the connectToDevice runs: slot -> [pc, link, cause]
  ringTask,               \* the ring handler in flight: [kind, pc]
  alertWritten,           \* the last byte handed to alertChar.write
  live,                   \* transport: links that are established
  registry,               \* transport: links registered with __registerPeripheral
  observed,               \* transport: links carrying the once('disconnect') observer
  linksEstablished,       \* history: advertisement.connect() successes, saturating at 2
  reconnectedFired,       \* history: a device_reconnected trigger has fired
  homeyVersion,           \* parseInt(this.homey.version, 10)
  pairAds,                \* driver: the advertisements discover() returned
  pairResult              \* driver: what onPairListDevices returned

sessionVars == <<initialized, deleted, alarm_disconnected, ring,
                 alarmRejected, wasDisconnected, peripheral,
                 ringListenerRegistered, flowActionsRegistered,
                 ringListeners, startListeners, stopListeners, reconnectTimeout,
                 reconnectTimers, ringTimeout, ringTimers, attempts, ringTask,
                 alertWritten, live, registry, observed, linksEstablished,
                 reconnectedFired, homeyVersion>>

pairVars == <<pairAds, pairResult>>

vars == <<sessionVars, pairVars>>

\* ---------------------------------------------------------------- helpers
Range(s) == {s[i] : i \in DOMAIN s}

Min(a, b) == IF a < b THEN a ELSE b

\* The sequence s without the element x.
Without(s, x) == SelectSeq(s, LAMBDA y : y # x)

\* The sequence s without its element at position k.
RemoveAt(s, k) == SubSeq(s, 1, k - 1) \o SubSeq(s, k + 1, Len(s))

\* The smallest handle of 1..n that is not in use.
FreshId(used, n) == CHOOSE i \in 1..n : i \notin used /\ \A j \in 1..(i - 1) : j \in used

IdleAttempt == [pc |-> "idle", link |-> NoLink, cause |-> "none"]

\* Mutant: the run returns before its first step.
StartedAttempt_Returned == IdleAttempt

\* connectToDevice has been called and awaits find() (line 61).
StartedAttempt == [pc |-> "find", link |-> NoLink, cause |-> "none"]

InFlight == {i \in Slots : attempts[i].pc # "idle"}

FreeSlot == CHOOSE i \in Slots : attempts[i].pc = "idle" /\ \A j \in 1..(i - 1) : attempts[j].pc # "idle"

LinksInUse == live \cup registry \cup observed \cup {peripheral}
                \cup {attempts[i].link : i \in Slots}

\* ------------------------------------------------------- connect attempts
\* Mutant: a throw is swallowed and the run goes on to the LinkLost write.
Thrown_Swallowed(a, why) == [a EXCEPT !.pc = "write", !.cause = why]

\* A connectToDevice run that has thrown: control is in the catch block,
\* awaiting the alarm write of line 223.
Thrown(a, why) == [a EXCEPT !.pc = "catch", !.cause = why]

\* reconnect(): arms one more timer and stores its handle; a timer that is
\* already pending is neither checked nor cleared.
reconnect(timers) == Append(timers, FreshId(Range(timers), MaxReconnectTimers))

\* Mutant: the timer is armed with setInterval and stays armed when it fires.
TimerFired_Interval(timers) == timers

\* A timer armed with setTimeout runs once: firing removes it.
TimerFired(timers) == Tail(timers)

\* Mutant: the failure paths clear the alarm.
AlarmOnFailure_Cleared == "false"

\* The value the failure paths write to alarm_disconnected.
AlarmOnFailure == "true"

\* The value a connect attempt writes to alarm_disconnected once linked.
AlarmOnConnect == "false"

\* Mutant: the catch block leaves the flag cleared.
CatchWasDisconnected_Cleared == FALSE

\* What the catch block stores in this.wasDisconnected.
CatchWasDisconnected == TRUE

\* Mutant: the listener is registered on every successful attempt.
RegisterOnce_Always(flag, n) == n + 1

\* `if (!flag) { register; flag = true }`: the registrations made so far.
RegisterOnce(flag, n) == IF flag THEN n ELSE n + 1

\* Mutant: a rejected write resets the capability.
Written_Reset(old, new, ok) == IF ok THEN new ELSE "false"

\* A capability write: the value the capability holds afterwards.
Written(old, new, ok) == IF ok THEN new ELSE old

onInit ==
  /\ ~initialized
  /\ initialized' = TRUE
  /\ \E ok \in BOOLEAN : ring' = Written(ring, "false", ok)
  /\ attempts' = IF homeyVersion < MinNotifyVersion
                   THEN attempts
                   ELSE [attempts EXCEPT ![1] = StartedAttempt]
  /\ UNCHANGED <<deleted, alarm_disconnected, alarmRejected, wasDisconnected,
                 peripheral, ringListenerRegistered, flowActionsRegistered,
                 ringListeners, startListeners, stopListeners, reconnectTimeout,
                 reconnectTimers, ringTimeout, ringTimers, ringTask, alertWritten,
                 live, registry, observed, linksEstablished, reconnectedFired,
                 homeyVersion, pairVars>>

\* line 61: await this.homey.ble.find(uuid)
AttemptFind(i) ==
  /\ attempts[i].pc = "find"
  /\ \E found \in BOOLEAN :
       attempts' = [attempts EXCEPT ![i] =
                      IF found THEN [@ EXCEPT !.pc = "rssi"] ELSE Thrown(@, "find")]
  /\ UNCHANGED <<initialized, deleted, alarm_disconnected, ring,
                 alarmRejected, wasDisconnected, peripheral, ringListenerRegistered,
                 flowActionsRegistered, ringListeners, startListeners, stopListeners,
                 reconnectTimeout, reconnectTimers, ringTimeout, ringTimers, ringTask,
                 alertWritten, live, registry, observed, linksEstablished,
                 reconnectedFired, homeyVersion, pairVars>>

\* lines 64, 285-294: await this.updateRSSI(advertisement.rssi): an rssi that is
\* defined is written to measure_signal_strength (a value the model does not
\* keep), and a rejected write is caught and logged inside updateRSSI.
AttemptRssi(i) ==
  /\ attempts[i].pc = "rssi"
  /\ attempts' = [attempts EXCEPT ![i].pc = "connect"]
  /\ UNCHANGED <<initialized, deleted, alarm_disconnected, ring,
                 alarmRejected, wasDisconnected, peripheral, ringListenerRegistered,
                 flowActionsRegistered, ringListeners, startListeners, stopListeners,
                 reconnectTimeout, reconnectTimers, ringTimeout, ringTimers, ringTask,
                 alertWritten, live, registry, observed, linksEstablished,
                 reconnectedFired, homeyVersion, pairVars>>

\* line 67: await advertisement.connect().  A tag holds one link at a time: the
\* connect succeeds only while no link to it is established.
AttemptConnect(i) ==
  /\ attempts[i].pc = "connect"
  /\ \/ /\ live = {}
        /\ LinkIds \ LinksInUse # {}
        /\ LET l == FreshId(LinksInUse, MaxLinks) IN
             /\ live' = live \cup {l}
             /\ attempts' = [attempts EXCEPT ![i] = [@ EXCEPT !.pc = "alarm", !.link = l]]
        /\ linksEstablished' = Min(linksEstablished + 1, 2)
     \/ /\ attempts' = [attempts EXCEPT ![i] = Thrown(@, "connect")]
        /\ UNCHANGED <<live, linksEstablished>>
  /\ UNCHANGED <<initialized, deleted, alarm_disconnected, ring,
                 alarmRejected, wasDisconnected, peripheral, ringListenerRegistered,
                 flowActionsRegistered, ringListeners, startListeners, stopListeners,
                 reconnectTimeout, reconnectTimers, ringTimeout, ringTimers, ringTask,
                 alertWritten, registry, observed, reconnectedFired,
                 homeyVersion, pairVars>>

\* lines 71-84: await setCapabilityValue('alarm_disconnected', false); then either
\* the reconnected trigger is started (line 76) or the link is registered (line 84)
\* and discoverServices is awaited.  A rejected write throws.
AttemptAlarm(i) ==
  /\ attempts[i].pc = "alarm"
  /\ \E ok \in BOOLEAN :
       /\ alarm_disconnected' = Written(alarm_disconnected, AlarmOnConnect, ok)
       /\ alarmRejected' = ~ok
       /\ IF ~ok
            THEN /\ attempts' = [attempts EXCEPT ![i] = Thrown(@, "alarm")]
                 /\ UNCHANGED registry
            ELSE IF wasDisconnected
              THEN /\ attempts' = [attempts EXCEPT ![i].pc = "trigger"]
                   /\ UNCHANGED registry
              ELSE /\ attempts' = [attempts EXCEPT ![i].pc = "discover"]
                   /\ registry' = registry \cup {attempts[i].link}
  /\ UNCHANGED <<initialized, deleted, ring,
                 wasDisconnected, peripheral, ringListenerRegistered,
                 flowActionsRegistered, ringListeners, startListeners, stopListeners,
                 reconnectTimeout, reconnectTimers, ringTimeout, ringTimers, ringTask,
                 alertWritten, live, observed, linksEstablished, reconnectedFired,
                 homeyVersion, pairVars>>

\* lines 76-84: the device_reconnected trigger has been delivered (an error of the
\* delivery is caught); the flag is cleared and the link registered.
AttemptTrigger(i) ==
  /\ attempts[i].pc = "trigger"
  /\ reconnectedFired' = TRUE
  /\ wasDisconnected' = FALSE
  /\ registry' = registry \cup {attempts[i].link}
  /\ attempts' = [attempts EXCEPT ![i].pc = "discover"]
  /\ UNCHANGED <<initialized, deleted, alarm_disconnected, ring,
                 alarmRejected, peripheral, ringListenerRegistered,
                 flowActionsRegistered, ringListeners, startListeners, stopListeners,
                 reconnectTimeout, reconnectTimers, ringTimeout, ringTimers, ringTask,
                 alertWritten, live, observed, linksEstablished, homeyVersion, pairVars>>

\* line 89: await peripheral.discoverServices()
AttemptDiscover(i) ==
  /\ attempts[i].pc = "discover"
  /\ \/ /\ attempts[i].link \in live
        /\ attempts' = [attempts EXCEPT ![i].pc = "getService"]
     \/ attempts' = [attempts EXCEPT ![i] = Thrown(@, "transport")]
  /\ UNCHANGED <<initialized, deleted, alarm_disconnected, ring,
                 alarmRejected, wasDisconnected, peripheral, ringListenerRegistered,
                 flowActionsRegistered, ringListeners, startListeners, stopListeners,
                 reconnectTimeout, reconnectTimers, ringTimeout, ringTimers, ringTask,
                 alertWritten, live, registry, observed, linksEstablished,
                 reconnectedFired, homeyVersion, pairVars>>

\* lines 93-96: the FFE0 service; absent throws 'FFE0 service not found'
AttemptGetService(i) ==
  /\ attempts[i].pc = "getService"
  /\ \/ /\ attempts[i].link \in live
        /\ attempts' = [attempts EXCEPT ![i].pc = "getAlertService"]
     \/ attempts' = [attempts EXCEPT ![i] = Thrown(@, "FFE0")]
     \/ attempts' = [attempts EXCEPT ![i] = Thrown(@, "transport")]
  /\ UNCHANGED <<initialized, deleted, alarm_disconnected, ring,
                 alarmRejected, wasDisconnected, peripheral, ringListenerRegistered,
                 flowActionsRegistered, ringListeners, startListeners, stopListeners,
                 reconnectTimeout, reconnectTimers, ringTimeout, ringTimers, ringTask,
                 alertWritten, live, registry, observed, linksEstablished,
                 reconnectedFired, homeyVersion, pairVars>>

\* line 97: the 1802 alert service; an absent service is not checked here, the run
\* goes on with alertService undefined
AttemptGetAlertService(i) ==
  /\ attempts[i].pc = "getAlertService"
  /\ \/ /\ attempts[i].link \in live
        /\ attempts' = [attempts EXCEPT ![i].pc = "getChars"]
     \/ attempts' = [attempts EXCEPT ![i] = [@ EXCEPT !.pc = "getChars", !.cause = "alertService"]]
     \/ attempts' = [attempts EXCEPT ![i] = Thrown(@, "transport")]
  /\ UNCHANGED <<initialized, deleted, alarm_disconnected, ring,
                 alarmRejected, wasDisconnected, peripheral, ringListenerRegistered,
                 flowActionsRegistered, ringListeners, startListeners, stopListeners,
                 reconnectTimeout, reconnectTimers, ringTimeout, ringTimers, ringTask,
                 alertWritten, live, registry, observed, linksEstablished,
                 reconnectedFired, homeyVersion, pairVars>>

\* lines 107-138: the three characteristics.  alertService undefined throws a
\* TypeError at line 109; a missing characteristic throws at lines 111-119;
\* otherwise this.alertChar is set (line 132; the model does not keep which
\* link's characteristic it is) and the LinkLost write is started.
AttemptGetChars(i) ==
  /\ attempts[i].pc = "getChars"
  /\ IF attempts[i].cause = "alertService"
       THEN attempts' = [attempts EXCEPT ![i] = Thrown(@, "alertService")]
       ELSE \/ /\ attempts[i].link \in live
               /\ attempts' = [attempts EXCEPT ![i].pc = "write"]
            \/ \E missing \in {"linkLostChar", "buttonChar", "alertChar", "transport"} :
                 attempts' = [attempts EXCEPT ![i] = Thrown(@, missing)]
  /\ UNCHANGED <<initialized, deleted, alarm_disconnected, ring,
                 alarmRejected, wasDisconnected, peripheral, ringListenerRegistered,
                 flowActionsRegistered, ringListeners, startListeners, stopListeners,
                 reconnectTimeout, reconnectTimers, ringTimeout, ringTimers, ringTask,
                 alertWritten, live, registry, observed, linksEstablished,
                 reconnectedFired, homeyVersion, pairVars>>

\* lines 138-215: await linkLostChar.write([0x00]); then, without another await,
\* the link is stored, the disconnect observer armed and the listeners registered
\* once: the run is complete.
AttemptWrite(i) ==
  /\ attempts[i].pc = "write"
  /\ \/ /\ attempts[i].link \in live
        /\ peripheral' = attempts[i].link
        /\ observed' = observed \cup {attempts[i].link}
        /\ ringListeners' = RegisterOnce(ringListenerRegistered, ringListeners)
        /\ ringListenerRegistered' = TRUE
        /\ startListeners' = RegisterOnce(flowActionsRegistered, startListeners)
        /\ stopListeners' = RegisterOnce(flowActionsRegistered, stopListeners)
        /\ flowActionsRegistered' = TRUE
        /\ attempts' = [attempts EXCEPT ![i] = IdleAttempt]
     \/ /\ attempts' = [attempts EXCEPT ![i] = Thrown(@, "write")]
        /\ UNCHANGED <<peripheral, observed, ringListeners, ringListenerRegistered,
                       startListeners, stopListeners, flowActionsRegistered>>
  /\ UNCHANGED <<initialized, deleted, alarm_disconnected, ring,
                 alarmRejected, wasDisconnected, reconnectTimeout, reconnectTimers,
                 ringTimeout, ringTimers, ringTask, alertWritten, live, registry,
                 linksEstablished, reconnectedFired, homeyVersion, pairVars>>

\* lines 217-232: the catch block: the alarm write (a rejection is caught), the
\* flag, and reconnect().  The run is complete; the link it may have established
\* is neither disconnected nor unregistered.
AttemptCatch(i) ==
  /\ attempts[i].pc = "catch"
  /\ Len(reconnectTimers) < MaxReconnectTimers
  /\ \E ok \in BOOLEAN :
       /\ alarm_disconnected' = Written(alarm_disconnected, AlarmOnFailure, ok)
       /\ alarmRejected' = ~ok
  /\ wasDisconnected' = CatchWasDisconnected
  /\ reconnectTimers' = reconnect(reconnectTimers)
  /\ reconnectTimeout' = reconnectTimers'[Len(reconnectTimers')]
  /\ attempts' = [attempts EXCEPT ![i] = [@ EXCEPT !.pc = "idle", !.link = NoLink]]
  /\ UNCHANGED <<initialized, deleted, ring, peripheral,
                 ringListenerRegistered, flowActionsRegistered, ringListeners,
                 startListeners, stopListeners, ringTimeout, ringTimers, ringTask,
                 alertWritten, live, registry, observed, linksEstablished,
                 reconnectedFired, homeyVersion, pairVars>>

\* lines 299-301: a reconnect timer fires and its callback calls connectToDevice,
\* which runs up to the await of line 61.
ReconnectTimerFires ==
  /\ Len(reconnectTimers) > 0
  /\ \E s \in Slots : attempts[s].pc = "idle"
  /\ reconnectTimers' = TimerFired(reconnectTimers)
  /\ attempts' = [attempts EXCEPT ![FreeSlot] = StartedAttempt]
  /\ UNCHANGED <<initialized, deleted, alarm_disconnected, ring,
                 alarmRejected, wasDisconnected, peripheral, ringListenerRegistered,
                 flowActionsRegistered, ringListeners, startListeners, stopListeners,
                 reconnectTimeout, ringTimeout, ringTimers, ringTask, alertWritten,
                 live, registry, observed, linksEstablished, reconnectedFired,
                 homeyVersion, pairVars>>

\* Mutant: the observer is registered with on() and stays registered.
ObserverFired_On(observers, l) == observers

\* peripheral.once('disconnect', ..): the observer is removed when it runs.
ObserverFired(observers, l) == observers \ {l}

\* lines 145-165: the link is lost and its once('disconnect') observer runs.
DisconnectEvent(l) ==
  /\ l \in observed
  /\ Len(reconnectTimers) < MaxReconnectTimers
  /\ \E ok \in BOOLEAN :
       /\ alarm_disconnected' = Written(alarm_disconnected, AlarmOnFailure, ok)
       /\ alarmRejected' = ~ok
  /\ wasDisconnected' = TRUE
  /\ registry' = registry \ {l}
  /\ peripheral' = NoLink
  /\ observed' = ObserverFired(observed, l)
  /\ live' = live \ {l}
  /\ reconnectTimers' = reconnect(reconnectTimers)
  /\ reconnectTimeout' = reconnectTimers'[Len(reconnectTimers')]
  /\ UNCHANGED <<initialized, deleted, ring, ringListenerRegistered, flowActionsRegistered, ringListeners,
                 startListeners, stopListeners, ringTimeout, ringTimers, attempts,
                 ringTask, alertWritten, linksEstablished, reconnectedFired,
                 homeyVersion, pairVars>>

\* The transport loses a link that carries no observer: nothing in the session runs.
LinkLost(l) ==
  /\ l \in live \ observed
  /\ live' = live \ {l}
  /\ UNCHANGED <<initialized, deleted, alarm_disconnected, ring,
                 alarmRejected, wasDisconnected, peripheral, ringListenerRegistered,
                 flowActionsRegistered, ringListeners, startListeners, stopListeners,
                 reconnectTimeout, reconnectTimers, ringTimeout, ringTimers, attempts,
                 ringTask, alertWritten, registry, observed, linksEstablished,
                 reconnectedFired, homeyVersion, pairVars>>

\* ------------------------------------------------------------ ring handlers
\* Ring handlers (the capability listener, the two action listeners, the timer
\* callback) run one at a time; the hub is taken to accept the writes of the
\* ring capability they make.

\* ringDevice(value): the byte handed to alertChar.write; a failure of the write
\* is caught and logged.
ringDevice(value) == IF value THEN RingByte ELSE StopByte

\* Mutant: the auto-stop callback rings again.
AutoStopByte_Ring == ringDevice(TRUE)

\* The byte the auto-stop callback writes: ringDevice(false).
AutoStopByte == ringDevice(FALSE)

\* The value the auto-stop callback writes to the ring capability.
AutoStopRing == "false"

\* `this._ringTimeout = await this.homey.setTimeout(..)`: one more timer is armed;
\* the one this._ringTimeout held is not cleared.
ArmRingTimer(timers) == Append(timers, FreshId(Range(timers), MaxRingTimers))

\* `if (handle) clearTimeout(handle)`: only the timer the field holds is cleared.
ClearTimer(timers, handle) == SelectSeq(timers, LAMBDA t : t # handle)

\* The field onDeleted reads for the ring timer, this.ringTimeout, is assigned
\* nowhere (the listeners assign this._ringTimeout): it is always undefined.
DeletedRingHandle == NoTimer

NoTask == [kind |-> "none", pc |-> "idle"]

\* A ring command arrives: the ring capability is set to on or off (listener of
\* lines 169-183), or the start_ringing / stop_ringing action runs (lines 192-212).
\* The handler runs up to its first await, the alert write of ringDevice.
RingCommand(kind) ==
  /\ initialized /\ deleted = "no"
  /\ ringTask = NoTask
  /\ IF kind \in {"capOn", "capOff"} THEN ringListeners > 0
                                     ELSE startListeners > 0 /\ stopListeners > 0
  /\ ringTask' = [kind |-> kind, pc |-> "write"]
  /\ UNCHANGED <<initialized, deleted, alarm_disconnected, ring,
                 alarmRejected, wasDisconnected, peripheral, ringListenerRegistered,
                 flowActionsRegistered, ringListeners, startListeners, stopListeners,
                 reconnectTimeout, reconnectTimers, ringTimeout, ringTimers, attempts,
                 alertWritten, live, registry, observed, linksEstablished,
                 reconnectedFired, homeyVersion, pairVars>>

\* The alert write of the handler has completed (or failed and been logged).
RingWrite ==
  /\ ringTask.pc = "write"
  /\ alertWritten' = IF ringTask.kind = "timer" THEN AutoStopByte
                     ELSE ringDevice(ringTask.kind \in {"capOn", "start"})
  /\ CASE ringTask.kind = "capOn" ->
            \* lines 171-175, 182: arm the timer; the hub then stores the value
            /\ Len(ringTimers) < MaxRingTimers
            /\ ringTimers' = ArmRingTimer(ringTimers)
            /\ ringTimeout' = ringTimers'[Len(ringTimers')]
            /\ ring' = "true"
            /\ ringTask' = NoTask
       [] ringTask.kind = "capOff" ->
            \* lines 176-182
            /\ ringTimers' = ClearTimer(ringTimers, ringTimeout)
            /\ ringTimeout' = NoTimer
            /\ ring' = "false"
            /\ ringTask' = NoTask
       [] ringTask.kind = "start" ->
            \* line 195: await setCapabilityValue('ring', true)
            /\ ringTask' = [ringTask EXCEPT !.pc = "setcap"]
            /\ UNCHANGED <<ringTimers, ringTimeout, ring>>
       [] ringTask.kind = "stop" ->
            \* lines 206-210: clear the timer, await setCapabilityValue('ring', false)
            /\ ringTimers' = ClearTimer(ringTimers, ringTimeout)
            /\ ringTimeout' = NoTimer
            /\ ringTask' = [ringTask EXCEPT !.pc = "setcap"]
            /\ UNCHANGED ring
       [] ringTask.kind = "timer" ->
            \* lines 174, 198: await setCapabilityValue('ring', false)
            /\ ringTask' = [ringTask EXCEPT !.pc = "setcap"]
            /\ UNCHANGED <<ringTimers, ringTimeout, ring>>
  /\ UNCHANGED <<initialized, deleted, alarm_disconnected,
                 alarmRejected, wasDisconnected, peripheral, ringListenerRegistered,
                 flowActionsRegistered, ringListeners, startListeners, stopListeners,
                 reconnectTimeout, reconnectTimers, attempts, live, registry, observed,
                 linksEstablished, reconnectedFired, homeyVersion, pairVars>>

\* The ring capability write of the handler has completed: the handler is done.
RingSetCap ==
  /\ ringTask.pc = "setcap"
  /\ ringTask' = NoTask
  /\ CASE ringTask.kind = "start" ->
            \* lines 195-200
            /\ ring' = "true"
            /\ Len(ringTimers) < MaxRingTimers
            /\ ringTimers' = ArmRingTimer(ringTimers)
            /\ ringTimeout' = ringTimers'[Len(ringTimers')]
       [] ringTask.kind = "stop" ->
            \* lines 210-211
            /\ ring' = "false"
            /\ UNCHANGED <<ringTimers, ringTimeout>>
       [] ringTask.kind = "timer" ->
            \* lines 174, 198
            /\ ring' = AutoStopRing
            /\ UNCHANGED <<ringTimers, ringTimeout>>
  /\ UNCHANGED <<initialized, deleted, alarm_disconnected, alarmRejected,
                 wasDisconnected, peripheral, ringListenerRegistered,
                 flowActionsRegistered, ringListeners, startListeners, stopListeners,
                 reconnectTimeout, reconnectTimers, attempts, alertWritten, live,
                 registry, observed, linksEstablished, reconnectedFired, homeyVersion, pairVars>>

\* lines 172-175, 196-199: the oldest ring-stop timer fires; its callback runs up
\* to the alert write of ringDevice(false).
RingTimerFires ==
  /\ Len(ringTimers) > 0
  /\ ringTask = NoTask
  /\ ringTimers' = Tail(ringTimers)
  /\ ringTask' = [kind |-> "timer", pc |-> "write"]
  /\ UNCHANGED <<initialized, deleted, alarm_disconnected, ring,
                 alarmRejected, wasDisconnected, peripheral, ringListenerRegistered,
                 flowActionsRegistered, ringListeners, startListeners, stopListeners,
                 reconnectTimeout, reconnectTimers, ringTimeout, attempts, alertWritten,
                 live, registry, observed, linksEstablished, reconnectedFired,
                 homeyVersion, pairVars>>

\* ----------------------------------------------------------------- teardown
\* lines 316-335: onDeleted up to the await of peripheral.disconnect().  The RSSI
\* interval is not part of the model.
onDeleted ==
  /\ initialized /\ deleted = "no"
  /\ reconnectTimers' = IF reconnectTimeout # NoTimer
                          THEN Without(reconnectTimers, reconnectTimeout)
                          ELSE reconnectTimers
  /\ ringTimers' = IF DeletedRingHandle # NoTimer
                     THEN ClearTimer(ringTimers, DeletedRingHandle)
                     ELSE ringTimers
  /\ IF peripheral # NoLink
       THEN /\ registry' = registry \ {peripheral}
            /\ deleted' = "disconnecting"
       ELSE /\ deleted' = "done"
            /\ UNCHANGED registry
  /\ UNCHANGED <<initialized, alarm_disconnected, ring, alarmRejected,
                 wasDisconnected, peripheral, ringListenerRegistered,
                 flowActionsRegistered, ringListeners, startListeners, stopListeners,
                 reconnectTimeout, ringTimeout, attempts, ringTask, alertWritten, live,
                 observed, linksEstablished, reconnectedFired, homeyVersion, pairVars>>

\* lines 335-338: peripheral.disconnect() has closed the link, or thrown (logged).
onDeletedDisconnected ==
  /\ deleted = "disconnecting"
  /\ deleted' = "done"
  /\ \E ok \in BOOLEAN : live' = IF ok THEN live \ {peripheral} ELSE live
  /\ UNCHANGED <<initialized, alarm_disconnected, ring, alarmRejected,
                 wasDisconnected, peripheral, ringListenerRegistered,
                 flowActionsRegistered, ringListeners, startListeners, stopListeners,
                 reconnectTimeout, reconnectTimers, ringTimeout, ringTimers, attempts,
                 ringTask, alertWritten, registry, observed, linksEstablished,
                 reconnectedFired, homeyVersion, pairVars>>

\* ------------------------------------------------------------------ pairing
HexDigits == <<"0", "1", "2", "3", "4", "5", "6", "7", "8", "9", "a", "b", "c", "d", "e", "f">>

\* Buffer.toString('hex'): two lower-case hex digits per byte (the text is kept
\* as the sequence of its characters).
RECURSIVE toHex(_)
toHex(bytes) ==
  IF bytes = <<>> THEN <<>>
  ELSE <<HexDigits[(Head(bytes) \div 16) + 1], HexDigits[(Head(bytes) % 16) + 1]>>
         \o toHex(Tail(bytes))

\* Mutant: the advertised name is compared without its padding.
IsTag_Trimmed(advertisement) == advertisement.localName \in {TagName, "iTAG"}

\* The filter of lines 22-24.
IsTag(advertisement) == advertisement.localName = TagName

\* The record of lines 27-35.
Device(tag) ==
  [name |-> "iTAG " \o tag.address,
   data |-> [id |-> tag.address],
   store |-> [manufacturerData |-> toHex(tag.manufacturerData), address |-> tag.address]]

\* tags.map(..) of lines 26-37.
RECURSIVE MapDevices(_)
MapDevices(tags) ==
  IF tags = <<>> THEN <<>> ELSE <<Device(Head(tags))>> \o MapDevices(Tail(tags))

\* lines 20-40 on the advertisements discover() resolved with.
ListDevices(advertisements) == MapDevices(SelectSeq(advertisements, IsTag))

LocalNames == {TagName, "iTAG", "Mi Band"}
Addresses == {"ff:ff:10:0a:2b:01", "ff:ff:10:0a:2b:02"}
Payloads == {<<>>, <<5, 171>>}
Advertisements == [localName : LocalNames, address : Addresses, manufacturerData : Payloads]

RECURSIVE SeqsUpTo(_, _)
SeqsUpTo(S, n) ==
  IF n = 0 THEN {<<>>}
  ELSE SeqsUpTo(S, n - 1) \cup {Append(s, x) : s \in {q \in SeqsUpTo(S, n - 1) : Len(q) = n - 1}, x \in S}

\* onPairListDevices: discover() rejects and the rejection propagates, or it
\* resolves and the devices are returned.
onPairListDevices ==
  /\ \/ /\ pairAds' = <<>>
        /\ pairResult' = [status |-> "rejected", devices |-> <<>>]
     \/ \E ads \in SeqsUpTo(Advertisements, MaxAds) :
          /\ pairAds' = ads
          /\ pairResult' = [status |-> "returned", devices |-> ListDevices(ads)]
  /\ UNCHANGED sessionVars

\* ------------------------------------------------------------ specification
Init ==
  /\ initialized = FALSE
  /\ deleted = "no"
  /\ alarm_disconnected = "null"
  /\ ring = "null"
  /\ alarmRejected = FALSE
  /\ wasDisconnected = FALSE
  /\ peripheral = NoLink
  /\ ringListenerRegistered = FALSE
  /\ flowActionsRegistered = FALSE
  /\ ringListeners = 0
  /\ startListeners = 0
  /\ stopListeners = 0
  /\ reconnectTimeout = NoTimer
  /\ reconnectTimers = <<>>
  /\ ringTimeout = NoTimer
  /\ ringTimers = <<>>
  /\ attempts = [i \in Slots |-> IdleAttempt]
  /\ ringTask = NoTask
  /\ alertWritten = NoByte
  /\ live = {}
  /\ registry = {}
  /\ observed = {}
  /\ linksEstablished = 0
  /\ reconnectedFired = FALSE
  /\ homeyVersion \in HomeyVersions
  /\ pairAds = <<>>
  /\ pairResult = [status |-> "none", devices |-> <<>>]

Next ==
  \/ onInit
  \/ \E i \in Slots : AttemptFind(i)
  \/ \E i \in Slots : AttemptRssi(i)
  \/ \E i \in Slots : AttemptConnect(i)
  \/ \E i \in Slots : AttemptAlarm(i)
  \/ \E i \in Slots : AttemptTrigger(i)
  \/ \E i \in Slots : AttemptDiscover(i)
  \/ \E i \in Slots : AttemptGetService(i)
  \/ \E i \in Slots : AttemptGetAlertService(i)
  \/ \E i \in Slots : AttemptGetChars(i)
  \/ \E i \in Slots : AttemptWrite(i)
  \/ \E i \in Slots : AttemptCatch(i)
  \/ ReconnectTimerFires
  \/ \E l \in LinkIds : DisconnectEvent(l)
  \/ \E l \in LinkIds : LinkLost(l)
  \/ \E kind \in {"capOn", "capOff", "start", "stop"} : RingCommand(kind)
  \/ RingWrite
  \/ RingSetCap
  \/ RingTimerFires
  \/ onDeleted
  \/ onDeletedDisconnected

Spec == Init /\ [][Next]_vars

PairNext == onPairListDevices

SpecPair == Init /\ [][PairNext]_vars

\* The timer armed by reconnect() (setTimeout, 7 s) fires unless it is cleared.
SpecFair == Spec /\ WF_vars(ReconnectTimerFires)

\* ------------------------------------------------------------------- claims
\* The session is Connected: this.peripheral holds a link.
Connected == peripheral # NoLink

C2_NoReconnectedOnFirstConnect == linksEstablished <= 1 => ~reconnectedFired

\* C3: at most one reconnect timer is pending at every instant.
C3_OneReconnectTimer == Len(reconnectTimers) <= 1

C3_Witness ==
  /\ Len(reconnectTimers) = 1 /\ reconnectTimeout = reconnectTimers[1]
  /\ linksEstablished = 2 /\ wasDisconnected /\ InFlight = {}

\* C4: at most one ring-stop timer is pending at every instant.
C4_OneRingTimer == Len(ringTimers) <= 1

C6_ListenersOnce == ringListeners <= 1 /\ startListeners <= 1 /\ stopListeners <= 1

C6_Witness ==
  /\ ringListeners = 1 /\ startListeners = 1 /\ stopListeners = 1
  /\ linksEstablished = 2 /\ reconnectedFired /\ Connected /\ InFlight = {}

\* C7: after onDeleted has run no reconnect timer is pending (so that no connect
\* attempt is started again).
C7_NoReconnectAfterDelete == deleted = "done" => reconnectTimers = <<>>

\* C8: after onDeleted has run no ring-stop timer is pending.
C8_NoRingTimerAfterDelete == deleted = "done" => ringTimers = <<>>

\* C9: the failure path of a connect attempt that found no FFE0 service sets
\* alarm_disconnected true (unless the hub rejects the write), sets
\* wasDisconnected, schedules exactly one reconnect and ends the attempt without
\* starting another.
C9_MissingServiceFails ==
  [][\A i \in Slots :
       (attempts[i].pc = "catch" /\ attempts[i].cause = "FFE0" /\ attempts'[i].pc # "catch")
         => /\ attempts'[i].pc = "idle"
            /\ InFlight' = {}
            /\ alarm_disconnected' = "true" \/ alarmRejected'
            /\ wasDisconnected'
            /\ reconnectTimers = <<>> /\ Len(reconnectTimers') = 1]_vars

C9_Witness ==
  \E i \in Slots :
    /\ attempts[i].pc = "idle" /\ attempts[i].cause = "FFE0"
    /\ alarm_disconnected = "true" /\ wasDisconnected
    /\ Len(reconnectTimers) = 1 /\ ~Connected

\* C10: onPairListDevices returns one candidate per advertisement named TagName,
\* in discovery order, each with that advertisement's address and the hex text of
\* its manufacturer data; a rejected discover returns nothing.
HexValue(c) == CHOOSE d \in 0..15 : HexDigits[d + 1] = c

FromHex(text) ==
  [k \in 1..(Len(text) \div 2) |-> 16 * HexValue(text[2 * k - 1]) + HexValue(text[2 * k])]

TagPositions == {i \in DOMAIN pairAds : pairAds[i].localName = TagName}

C10_PairList ==
  /\ pairResult.status = "rejected" => pairResult.devices = <<>>
  /\ pairResult.status = "returned" =>
       /\ Len(pairResult.devices) = Cardinality(TagPositions)
       /\ \A i \in TagPositions :
            LET d == pairResult.devices[Cardinality({j \in TagPositions : j <= i})] IN
              /\ d.data.id = pairAds[i].address
              /\ d.store.address = pairAds[i].address
              /\ Len(d.store.manufacturerData) = 2 * Len(pairAds[i].manufacturerData)
              /\ FromHex(d.store.manufacturerData) = pairAds[i].manufacturerData

C10_Witness ==
  /\ pairResult.status = "returned"
  /\ Len(pairAds) = 2 /\ TagPositions = {2}
  /\ Len(pairResult.devices) = 1
  /\ pairResult.devices[1].store.manufacturerData = <<"0", "5", "a", "b">>

\* C11 (as claimed, taken at rest): while the session is not torn down and no
\* connect attempt is in flight, this.peripheral holds a link iff a link the
\* session established is live.
C11_HandleIffLinkLive ==
  (InFlight = {} /\ deleted = "no") => (Connected <=> live # {})

\* C12 (as claimed, taken at rest): with no connect attempt in flight the registry
\* holds at most one link of the session, and none while it is not Connected.
C12_RegistryUndone ==
  InFlight = {} => /\ Cardinality(registry) <= 1
                   /\ ~Connected => registry = {}

\* C13: at most one connectToDevice run is in flight at every instant, and a run
\* starts only when none is in flight.
C13_OneAttempt ==
  /\ Cardinality(InFlight) <= 1
  /\ reconnectTimers # <<>> => InFlight = {}
  /\ Connected => InFlight = {}

C13_Witness ==
  /\ Cardinality(InFlight) = 1 /\ reconnectTimers = <<>>
  /\ linksEstablished = 2 /\ reconnectedFired /\ ~Connected
  /\ \E i \in Slots : attempts[i].pc = "write"

\* C14: no connect attempt is ever aborted because the hub rejected the write of
\* alarm_disconnected.
C14_WriteNeverAborts == \A i \in Slots : attempts[i].cause # "alarm"

\* C15: when a stop command (ring set to false, or stop_ringing) completes, no
\* ring-stop timer is pending.
C15_StopCancelsTimer ==
  [][(ringTask.kind \in {"capOff", "stop"} /\ ringTask' = NoTask)
       => ringTimers' = <<>>]_vars

\* The host supports notifications: onInit goes on to the first connect attempt.
Supported == homeyVersion >= MinNotifyVersion

\* C16 (as claimed): an initialized session that is not torn down is never at
\* rest: it is Connected, or an attempt is in flight, or a reconnect is pending.
C16_NeverAtRest ==
  (initialized /\ deleted = "no")
    => (Connected \/ InFlight # {} \/ reconnectTimers # <<>>)

\* C16 (amended): on a host that supports notifications, an initialized session
\* that is not torn down is Connected, or has an attempt in flight, or has a
\* reconnect pending; and whenever it is not Connected with no attempt in flight,
\* an attempt is eventually started (or the session is torn down).
C16_AlwaysRetries ==
  /\ []((initialized /\ deleted = "no" /\ Supported)
          => (Connected \/ InFlight # {} \/ reconnectTimers # <<>>))
  /\ (initialized /\ deleted = "no" /\ Supported /\ ~Connected /\ InFlight = {})
       ~> (InFlight # {} \/ deleted # "no")

C16_Witness ==
  /\ initialized /\ deleted = "no" /\ Supported
  /\ ~Connected /\ InFlight = {} /\ Len(reconnectTimers) = 1
  /\ linksEstablished = 1 /\ live = {} /\ ringListenerRegistered

\* The parts whose absence lines 97-119 find.
MissingParts == {"alertService", "linkLostChar", "buttonChar", "alertChar"}

\* C17: a connect attempt that found the alert service or one of the three
\* characteristics missing never reaches the LinkLost write; its link is not
\* stored and carries no observer; its failure path schedules a reconnect.
C17_MissingPartAborts ==
  /\ [](\A i \in Slots :
          attempts[i].cause \in MissingParts =>
            /\ attempts[i].pc \in {"getChars", "catch", "idle"}
            /\ attempts[i].pc # "idle" =>
                 peripheral = NoLink /\ attempts[i].link \notin observed)
  /\ [][\A i \in Slots :
          (attempts[i].pc = "catch" /\ attempts[i].cause \in MissingParts
             /\ attempts'[i].pc # "catch")
            => /\ attempts'[i].pc = "idle"
               /\ peripheral' = NoLink
               /\ attempts[i].link \notin observed'
               /\ Len(reconnectTimers') = Len(reconnectTimers) + 1]_vars

C17_Witness ==
  \E i \in Slots :
    /\ attempts[i].pc = "idle" /\ attempts[i].cause \in MissingParts \ {"alertService"}
    /\ peripheral = NoLink /\ observed = {} /\ live # {}
    /\ Len(reconnectTimers) = 1

\* C18: when a ring-stop timer fires it is the timer of the latest ring command:
\* no timer armed later is still pending.
C18_NoEarlyAutoStop ==
  [][(ringTask = NoTask /\ ringTask'.kind = "timer") => Len(ringTimers) = 1]_vars

\* C19: with no connect attempt in flight, every live link of the session
\* carries the disconnect observer.
C19_LiveLinkObserved == InFlight = {} => live \subseteq observed

\* The step of a connect attempt that has its link and completes the write of
\* line 71.
AlarmStep ==
  \E i \in Slots :
    /\ attempts[i].pc = "alarm" /\ attempts[i].link # NoLink
    /\ attempts'[i].pc \in {"trigger", "discover"}

\* C20: alarm_disconnected becomes false, or stops being true, only in the step
\* of a connect attempt that follows its connect(); the start of an attempt by
\* the reconnect timer leaves it unchanged and a step that arms a reconnect timer
\* never leaves it false unless it was.
C20_AlarmClearedOnlyOnLink ==
  [][/\ (alarm_disconnected' = "false" /\ alarm_disconnected # "false") => AlarmStep
     /\ (alarm_disconnected = "true" /\ alarm_disconnected' # "true") => AlarmStep
     /\ (\E i \in Slots : attempts[i].pc = "idle" /\ attempts'[i].pc = "find")
          => alarm_disconnected' = alarm_disconnected
     /\ Len(reconnectTimers') > Len(reconnectTimers)
          => alarm_disconnected' \in {"true", alarm_disconnected}]_vars

C20_Witness ==
  /\ alarm_disconnected = "false" /\ ~alarmRejected
  /\ linksEstablished = 2 /\ reconnectedFired
  /\ \E i \in Slots : attempts[i].pc = "discover" /\ attempts[i].link \in live

====
